---- MODULE Spec2Model ----
(***************************************************************************)
(* A model of md_utils/simulation/gmx_parser.py: the index-file parser     *)
(* parse_ndx and the ordered, comment-preserving MDP document (read,       *)
(* write, _convert_to_numeric).                                            *)
(*                                                                         *)
(* Text is modelled at character level: a Python str is a sequence of      *)
(* one-character strings, a file is the sequence of its lines (each        *)
(* without its terminating newline).  The input texts are built from       *)
(* digits, blanks, the letters a b c x y z g B C and the marks             *)
(* = ; [ ] + - . _ so the exponent, inf and nan forms of float() cannot    *)
(* be spelled; they are not modelled.                                      *)
(***************************************************************************)
EXTENDS Integers, Sequences, FiniteSets, TLC

VARIABLES
    fs,         \* the file system: path -> sequence of lines, or NoFile
    mdp,        \* object id -> the MDP instance (an ordered dict), or NotBuilt
    raised,     \* the exception the last operation ended in, or NoError
    nops,       \* number of operations performed so far (bounded by MaxOps)
    call,       \* history: the last operation, its arguments and the
                \* document it started from
    written,    \* history: path -> the document MDP.write last put there,
                \* whether it was as parsed from file `src`, and skipempty
    conv_in,    \* argument of the last _convert_to_numeric call
    conv_out,   \* its return value
    ndx_file,   \* content of the index file handed to parse_ndx
    ndx_out     \* what parse_ndx returned or raised, or NotCalled

vars == <<fs, mdp, raised, nops, call, written, conv_in, conv_out, ndx_file, ndx_out>>

----------------------------------------------------------------------------
(* Bounds of the model *)

MaxTokens == 2
MaxLines == 2
MaxDocLines == 1
MaxOps == 3
MaxNdxLines == 3
MaxGroups == 11

----------------------------------------------------------------------------
(* Characters and Python's str helpers *)

Digit == {"0", "1", "2", "3", "4", "5", "6", "7", "8", "9"}

Whitespace == {" ", "\t"}

\* str.lstrip()
RECURSIVE LStrip(_)
LStrip(s) ==
    IF s # <<>> /\ s[1] \in Whitespace THEN LStrip(Tail(s)) ELSE s

\* str.rstrip()
RECURSIVE RStrip(_)
RStrip(s) ==
    IF s # <<>> /\ s[Len(s)] \in Whitespace
    THEN RStrip(SubSeq(s, 1, Len(s) - 1))
    ELSE s

\* str.strip()
Strip(s) == RStrip(LStrip(s))

\* Index of the first character of s that is in set cs, or Len(s) + 1.
RECURSIVE FirstIn(_, _, _)
FirstIn(s, cs, i) ==
    IF i > Len(s) \/ s[i] \in cs THEN i ELSE FirstIn(s, cs, i + 1)

\* Index of the first character of s from i on that is NOT in cs, or Len(s) + 1.
RECURSIVE FirstNotIn(_, _, _)
FirstNotIn(s, cs, i) ==
    IF i > Len(s) \/ s[i] \notin cs THEN i ELSE FirstNotIn(s, cs, i + 1)

\* str.split() with no argument: the maximal runs of non-whitespace.
RECURSIVE Split(_)
Split(s) ==
    LET t == LStrip(s)
        e == FirstIn(t, Whitespace, 1)
    IN  IF t = <<>> THEN <<>>
        ELSE <<SubSeq(t, 1, e - 1)>> \o Split(SubSeq(t, e, Len(t)))

\* sep.join(parts)
RECURSIVE Join(_, _)
Join(sep, parts) ==
    IF parts = <<>> THEN <<>>
    ELSE IF Len(parts) = 1 THEN parts[1]
    ELSE parts[1] \o sep \o Join(sep, Tail(parts))

\* n copies of character c
RECURSIVE Rep(_, _)
Rep(c, n) == IF n <= 0 THEN <<>> ELSE <<c>> \o Rep(c, n - 1)

----------------------------------------------------------------------------
(* Python values held by a document *)

NoneV == [t |-> "None"]
StrV(s) == [t |-> "str", s |-> s]
IntV(n) == [t |-> "int", n |-> n]
\* A float is the decimal (-1)^neg * m / 10^sc, with sc minimal.
FloatV(neg, m, sc) == [t |-> "float", neg |-> neg, m |-> m, sc |-> sc]
ListV(es) == [t |-> "list", e |-> es]

DigitVal(c) ==
    CASE c = "0" -> 0 [] c = "1" -> 1 [] c = "2" -> 2 [] c = "3" -> 3
      [] c = "4" -> 4 [] c = "5" -> 5 [] c = "6" -> 6 [] c = "7" -> 7
      [] c = "8" -> 8 [] c = "9" -> 9

DigitChar(d) ==
    CASE d = 0 -> "0" [] d = 1 -> "1" [] d = 2 -> "2" [] d = 3 -> "3"
      [] d = 4 -> "4" [] d = 5 -> "5" [] d = 6 -> "6" [] d = 7 -> "7"
      [] d = 8 -> "8" [] d = 9 -> "9"

\* The digit part of a numeric literal: digits, single underscores allowed
\* between two digits.
DigitsUS(s) ==
    /\ Len(s) > 0
    /\ s[1] \in Digit
    /\ s[Len(s)] \in Digit
    /\ \A i \in 1..Len(s) :
          /\ s[i] \in Digit \cup {"_"}
          /\ (s[i] = "_" => s[i + 1] # "_")

\* The literal without its underscores.
RECURSIVE DropUS(_)
DropUS(s) ==
    IF s = <<>> THEN <<>>
    ELSE IF s[1] = "_" THEN DropUS(Tail(s))
    ELSE <<s[1]>> \o DropUS(Tail(s))

RECURSIVE DigitsVal(_)
DigitsVal(s) ==
    IF s = <<>> THEN 0
    ELSE 10 * DigitsVal(SubSeq(s, 1, Len(s) - 1)) + DigitVal(s[Len(s)])

HasSign(tok) == tok # <<>> /\ tok[1] \in {"+", "-"}
Unsigned(tok) == IF HasSign(tok) THEN Tail(tok) ELSE tok
IsNeg(tok) == tok # <<>> /\ tok[1] = "-"

\* int(tok) succeeds (base 10).
IntOk(tok) == DigitsUS(Unsigned(tok))

\* int(tok)
IntOf(tok) ==
    LET n == DigitsVal(DropUS(Unsigned(tok)))
    IN  IF IsNeg(tok) THEN 0 - n ELSE n

\* float(tok) succeeds: [sign] digits [. [digits]] or [sign] . digits
FloatOk(tok) ==
    LET u == Unsigned(tok)
        d == FirstIn(u, {"."}, 1)
        ip == SubSeq(u, 1, d - 1)
        fp == SubSeq(u, d + 1, Len(u))
    IN  IF d > Len(u) THEN DigitsUS(u)
        ELSE /\ ip = <<>> \/ DigitsUS(ip)
             /\ fp = <<>> \/ DigitsUS(fp)
             /\ ~(ip = <<>> /\ fp = <<>>)

\* The decimal m / 10^sc with its trailing zeros removed.
RECURSIVE Normal(_, _, _)
Normal(neg, m, sc) ==
    IF sc > 0 /\ m % 10 = 0 THEN Normal(neg, m \div 10, sc - 1)
    ELSE FloatV(neg, m, sc)

\* float(tok)
FloatOf(tok) ==
    LET u == Unsigned(tok)
        d == FirstIn(u, {"."}, 1)
        ip == DropUS(SubSeq(u, 1, d - 1))
        fp == DropUS(SubSeq(u, d + 1, Len(u)))
    IN  Normal(IsNeg(tok), DigitsVal(ip \o fp), Len(fp))

\* The decimal digits of a natural number.
RECURSIVE NatStr(_)
NatStr(n) ==
    IF n < 10 THEN <<DigitChar(n)>>
    ELSE NatStr(n \div 10) \o <<DigitChar(n % 10)>>

\* str(n) of an int
IntStr(n) == IF n < 0 THEN <<"-">> \o NatStr(0 - n) ELSE NatStr(n)

RECURSIVE Pow10(_)
Pow10(k) == IF k = 0 THEN 1 ELSE 10 * Pow10(k - 1)

\* str(x) of a float in the fixed-point range of repr (1e-4 <= |x| < 1e16,
\* or zero): integer part, point, fraction (at least one digit).
FloatStr(f) ==
    LET ip == NatStr(f.m \div Pow10(f.sc))
        fr == NatStr(f.m % Pow10(f.sc))
        fp == IF f.sc = 0 THEN <<"0">>
              ELSE Rep("0", f.sc - Len(fr)) \o fr
    IN  (IF f.neg THEN <<"-">> ELSE <<>>) \o ip \o <<".">> \o fp

\* repr(v) of a list element, and str(v) of a value.
RECURSIVE PyRepr(_)
PyRepr(v) ==
    CASE v.t = "None" -> <<"N", "o", "n", "e">>
      [] v.t = "str" -> <<"'">> \o v.s \o <<"'">>
      [] v.t = "int" -> IntStr(v.n)
      [] v.t = "float" -> FloatStr(v)
      [] v.t = "list" ->
            <<"[">>
            \o Join(<<",", " ">>, [i \in 1..Len(v.e) |-> PyRepr(v.e[i])])
            \o <<"]">>

PyStr(v) == IF v.t = "str" THEN v.s ELSE PyRepr(v)

----------------------------------------------------------------------------
(* collections.OrderedDict: a sequence of entries [k, v] with distinct keys *)

HasKey(d, k) == \E i \in 1..Len(d) : d[i].k = k

KeyIndex(d, k) == CHOOSE i \in 1..Len(d) : d[i].k = k

Lookup(d, k) == d[KeyIndex(d, k)].v

\* d[k] = v as delete-then-insert: an existing key moves to the end.
RECURSIVE Without(_, _)
Without(d, k) ==
    IF d = <<>> THEN <<>>
    ELSE IF d[1].k = k THEN Without(Tail(d), k)
    ELSE <<d[1]>> \o Without(Tail(d), k)

DictSetMoveToEnd(d, k, v) == Append(Without(d, k), [k |-> k, v |-> v])

\* d[k] = v: an existing key keeps its position, a new key goes to the end.
DictSet(d, k, v) ==
    IF HasKey(d, k)
    THEN [d EXCEPT ![KeyIndex(d, k)] = [k |-> k, v |-> v]]
    ELSE Append(d, [k |-> k, v |-> v])

\* d.update(other)
RECURSIVE DictUpdate(_, _)
DictUpdate(d, other) ==
    IF other = <<>> THEN d
    ELSE DictUpdate(DictSet(d, other[1].k, other[1].v), Tail(other))

\* del d[k] for a key d has: the other entries keep their order
DictDel(d, k) == SelectSeq(d, LAMBDA e : e.k # k)

\* d.popitem(last) for a non-empty d: without its last or its first entry
DictPopItem(d, last) ==
    IF last THEN SubSeq(d, 1, Len(d) - 1) ELSE Tail(d)

\* d.move_to_end(k, last) for a key d has
DictMoveToEnd(d, k, last) ==
    IF last THEN Append(DictDel(d, k), d[KeyIndex(d, k)])
    ELSE <<d[KeyIndex(d, k)]>> \o DictDel(d, k)

----------------------------------------------------------------------------
(* class MDP *)

\* One pass of the converter loop: [converter(i) for i in s.split()], then
\* the single element or the list.
Pack(es) == IF Len(es) = 1 THEN es[1] ELSE ListV(es)

AllInt(toks) == \A i \in 1..Len(toks) : IntOk(toks[i])
AllFloat(toks) == \A i \in 1..Len(toks) : FloatOk(toks[i])

\* _convert_to_numeric with the converters tried in the order float, int, str
ConvertToNumericFloatFirst(v) ==
    IF v.t # "str" THEN v
    ELSE LET toks == Split(v.s)
         IN  IF AllFloat(toks)
             THEN Pack([i \in 1..Len(toks) |-> FloatOf(toks[i])])
             ELSE IF AllInt(toks)
             THEN Pack([i \in 1..Len(toks) |-> IntV(IntOf(toks[i]))])
             ELSE Pack([i \in 1..Len(toks) |-> StrV(toks[i])])

\* MDP._convert_to_numeric(s)
ConvertToNumeric(v) ==
    IF v.t # "str" THEN v
    ELSE LET toks == Split(v.s)
         IN  IF AllInt(toks)
             THEN Pack([i \in 1..Len(toks) |-> IntV(IntOf(toks[i]))])
             ELSE IF AllFloat(toks)
             THEN Pack([i \in 1..Len(toks) |-> FloatOf(toks[i])])
             ELSE Pack([i \in 1..Len(toks) |-> StrV(toks[i])])

\* MDP.COMMENT.match(line)
CommentMatch(line) ==
    LET t == LStrip(line) IN t # <<>> /\ t[1] = ";"

\* m.group("value") of a COMMENT match
CommentValue(line) == LStrip(Tail(LStrip(line)))

\* MDP.PARAMETER.match(line), for a stripped, non-empty line as read() hands
\* it over: a first character other than '=' and an '=' somewhere.
ParameterMatch(line) ==
    /\ line # <<>>
    /\ line[1] # "="
    /\ FirstIn(line, {"="}, 1) <= Len(line)

\* m.group("parameter"): the text before the first '=', trailing blanks dropped
ParameterKey(line) == RStrip(SubSeq(line, 1, FirstIn(line, {"="}, 1) - 1))

\* m.group("value"): after the '=', leading blanks skipped, up to the first ';'
ParameterValue(line) ==
    LET j == FirstNotIn(line, Whitespace, FirstIn(line, {"="}, 1) + 1)
    IN  SubSeq(line, j, FirstIn(line, {";"}, j) - 1)

\* f"{i:04d}"
Pad4(i) == LET s == NatStr(i) IN Rep("0", 4 - Len(s)) \o s

BLANK(i) == <<"B">> \o Pad4(i)
COMMENT(i) == <<"C">> \o Pad4(i)

\* The loop of MDP.read over the lines from the i-th on; data, iblank and
\* icomment are the locals.  Ends in the parsed data or in the ParseError.
RECURSIVE ReadLoop(_, _, _, _, _)
ReadLoop(lines, i, iblank, icomment, data) ==
    IF i > Len(lines) THEN [ok |-> TRUE, data |-> data]
    ELSE LET line == Strip(lines[i])
         IN  IF Len(line) = 0
             THEN ReadLoop(lines, i + 1, iblank + 1, icomment,
                           DictSet(data, BLANK(iblank + 1), StrV(<<>>)))
             ELSE IF CommentMatch(line)
             THEN ReadLoop(lines, i + 1, iblank, icomment + 1,
                           DictSet(data, COMMENT(icomment + 1),
                                   StrV(CommentValue(line))))
             ELSE IF ParameterMatch(line)
             THEN ReadLoop(lines, i + 1, iblank, icomment,
                           DictSet(data, ParameterKey(line),
                                   ConvertToNumeric(StrV(ParameterValue(line)))))
             ELSE [ok |-> FALSE, data |-> data, line |-> line]

\* os.path.basename of a path given as its components
Basename(path) == path[Len(path)]

\* MDP.read updating the document line by line instead of from the local
\* `data` at the end: a ParseError leaves the earlier lines' entries behind.
ReadResultPartial(self, path, lines) ==
    LET r == ReadLoop(lines, 1, 0, 0, <<>>)
    IN  IF r.ok
        THEN [data |-> DictUpdate(self, r.data),
              raised |-> [type |-> "None", file |-> "", line |-> <<>>]]
        ELSE [data |-> DictUpdate(self, r.data),
              raised |-> [type |-> "ParseError",
                          file |-> Basename(path), line |-> r.line]]

\* MDP.read on a document holding `self`, the file holding `lines`:
\* the document afterwards and the exception raised, if any.
ReadResult(self, path, lines) ==
    LET r == ReadLoop(lines, 1, 0, 0, <<>>)
    IN  IF r.ok
        THEN [data |-> DictUpdate(self, r.data),
              raised |-> [type |-> "None", file |-> "", line |-> <<>>]]
        ELSE [data |-> self,
              raised |-> [type |-> "ParseError",
                          file |-> Basename(path), line |-> r.line]]

\* The line MDP.write emits for one entry, as a sequence of zero or one lines.
WriteEntry(e, skipempty) ==
    IF e.k[1] = "B" THEN << <<>> >>
    ELSE IF e.k[1] = "C" THEN << <<";", " ">> \o PyStr(e.v) >>
    ELSE IF skipempty /\ (e.v = StrV(<<>>) \/ e.v = NoneV) THEN <<>>
    ELSE IF e.v.t # "list"
    THEN << e.k \o <<" ", "=", " ">> \o PyStr(e.v) >>
    ELSE << e.k \o <<" ", "=", " ">>
            \o Join(<<" ">>, [i \in 1..Len(e.v.e) |-> PyStr(e.v.e[i])]) >>

\* The lines MDP.write puts into the output file.
RECURSIVE WriteLines(_, _)
WriteLines(d, skipempty) ==
    IF d = <<>> THEN <<>>
    ELSE WriteEntry(d[1], skipempty) \o WriteLines(Tail(d), skipempty)

----------------------------------------------------------------------------
(* parse_ndx *)

\* line.startswith('[') and line.endswith(']')
IsHeader(line) == line # <<>> /\ line[1] = "[" /\ line[Len(line)] = "]"

\* line[1:-1].strip()
HeaderName(line) == Strip(SubSeq(line, 2, Len(line) - 1))

\* [int(idx) for idx in indices]
IntsOf(toks) == [i \in 1..Len(toks) |-> IntOf(toks[i])]

\* The loop of parse_ndx with a repeated header keeping the members the
\* group already has (merge instead of replace).
RECURSIVE NdxLoopMerge(_, _, _, _)
NdxLoopMerge(lines, i, groups, cur) ==
    IF i > Len(lines) THEN [ok |-> TRUE, groups |-> groups]
    ELSE LET line == Strip(lines[i])
         IN  IF IsHeader(line)
             THEN NdxLoopMerge(lines, i + 1,
                          IF HasKey(groups, HeaderName(line)) THEN groups
                          ELSE DictSet(groups, HeaderName(line), <<>>),
                          [has |-> TRUE, name |-> HeaderName(line)])
             ELSE IF cur.has
             THEN IF AllInt(Split(line))
                  THEN NdxLoopMerge(lines, i + 1,
                               DictSet(groups, cur.name,
                                       Lookup(groups, cur.name)
                                       \o IntsOf(Split(line))),
                               cur)
                  ELSE [ok |-> FALSE, groups |-> groups]
             ELSE NdxLoopMerge(lines, i + 1, groups, cur)

\* The loop of parse_ndx with a line holding a malformed token skipped.
RECURSIVE NdxLoopSkip(_, _, _, _)
NdxLoopSkip(lines, i, groups, cur) ==
    IF i > Len(lines) THEN [ok |-> TRUE, groups |-> groups]
    ELSE LET line == Strip(lines[i])
         IN  IF IsHeader(line)
             THEN NdxLoopSkip(lines, i + 1,
                          DictSet(groups, HeaderName(line), <<>>),
                          [has |-> TRUE, name |-> HeaderName(line)])
             ELSE IF cur.has /\ AllInt(Split(line))
             THEN NdxLoopSkip(lines, i + 1,
                              DictSet(groups, cur.name,
                                      Lookup(groups, cur.name)
                                      \o IntsOf(Split(line))),
                              cur)
             ELSE NdxLoopSkip(lines, i + 1, groups, cur)

\* The loop of parse_ndx over the lines from the i-th on; groups and
\* current_group (has, name) are the locals.  Ends in the groups or in the
\* ValueError of int().
RECURSIVE NdxLoop(_, _, _, _)
NdxLoop(lines, i, groups, cur) ==
    IF i > Len(lines) THEN [ok |-> TRUE, groups |-> groups]
    ELSE LET line == Strip(lines[i])
         IN  IF IsHeader(line)
             THEN NdxLoop(lines, i + 1,
                          DictSet(groups, HeaderName(line), <<>>),
                          [has |-> TRUE, name |-> HeaderName(line)])
             ELSE IF cur.has
             THEN IF AllInt(Split(line))
                  THEN NdxLoop(lines, i + 1,
                               DictSet(groups, cur.name,
                                       Lookup(groups, cur.name)
                                       \o IntsOf(Split(line))),
                               cur)
                  ELSE [ok |-> FALSE, groups |-> groups]
             ELSE NdxLoop(lines, i + 1, groups, cur)

\* max(iterable, default=0) over the values f[1..n]
RECURSIVE MaxOf(_, _)
MaxOf(f, n) ==
    IF n = 0 THEN 0
    ELSE LET m == MaxOf(f, n - 1) IN IF f[n] > m THEN f[n] ELSE m

\* f"{s:<{w}}" and f"{s:>{w}}"
LJust(s, w) == s \o Rep(" ", w - Len(s))
RJust(s, w) == Rep(" ", w - Len(s)) \o s

\* A summary line with the index column as wide as len(groups), not
\* len(groups) - 1.
SummaryLineWideIndex(groups, i) ==
    LET n == Len(groups)
        name_w == MaxOf([j \in 1..n |-> Len(groups[j].k)], n)
        label_w == name_w + 1
        count_w == Len(IntStr(MaxOf([j \in 1..n |-> Len(groups[j].v)], n)))
        idx_w == Len(IntStr(n))
        label == groups[i + 1].k \o <<":">>
    IN  <<" ", " ", "(">> \o IntStr(i) \o <<")", " ">>
        \o LJust(<<>>, idx_w - Len(IntStr(i)))
        \o LJust(label, label_w)
        \o <<" ">>
        \o RJust(IntStr(Len(groups[i + 1].v)), count_w)
        \o <<" ", "a", "t", "o", "m", "s">>

\* One line of group_str (without its newline), i counted from 0.
SummaryLine(groups, i) ==
    LET n == Len(groups)
        name_w == MaxOf([j \in 1..n |-> Len(groups[j].k)], n)
        label_w == name_w + 1
        count_w == Len(IntStr(MaxOf([j \in 1..n |-> Len(groups[j].v)], n)))
        idx_w == Len(IntStr(n - 1))
        label == groups[i + 1].k \o <<":">>
    IN  <<" ", " ", "(">> \o IntStr(i) \o <<")", " ">>
        \o LJust(<<>>, idx_w - Len(IntStr(i)))
        \o LJust(label, label_w)
        \o <<" ">>
        \o RJust(IntStr(Len(groups[i + 1].v)), count_w)
        \o <<" ", "a", "t", "o", "m", "s">>

\* group_str, as the sequence of its newline-terminated lines
GroupStr(groups) == [i \in 1..Len(groups) |-> SummaryLine(groups, i - 1)]

\* parse_ndx(ndx_file) on a file holding `lines`
ParseNdxResult(lines) ==
    LET r == NdxLoop(lines, 1, <<>>, [has |-> FALSE, name |-> <<>>])
    IN  IF r.ok
        THEN [st |-> "returned", groups |-> r.groups,
              group_str |-> GroupStr(r.groups)]
        ELSE [st |-> "raised", groups |-> <<>>, group_str |-> <<>>]

----------------------------------------------------------------------------
(* Inputs *)

\* All sequences over S of length at most n
SeqsUpTo(S, n) == UNION {[1..k -> S] : k \in 0..n}

\* Tokens of a value text
Tokens ==
    {<<"1">>,
     <<"-", "2">>,
     <<"0", "7">>,
     <<"1", ".", "5">>,
     <<".", "5">>,
     <<"2", ".">>,
     <<"x">>,
     <<"-">>,
     <<".">>,
     <<"1", "_", "0">>,
     <<"+", "3">>,
     <<"1", ".", "5", "0">>}

\* Arguments of _convert_to_numeric: value texts of up to MaxTokens tokens,
\* with and without a trailing blank, and some values that are not a str.
ConvInputs ==
    {StrV(Join(<<" ">>, ts) \o pad) :
        ts \in SeqsUpTo(Tokens, MaxTokens), pad \in {<<>>, <<" ">>}}
    \cup {NoneV, IntV(3), ListV(<<IntV(1), IntV(2)>>)}

\* Lines of a configuration file: blank, comment, parameters (a list
\* value, an empty value, a key that starts with B).
MdpLines ==
    {<<>>,
     <<";", " ", "c">>,
     <<"a", " ", "=", " ", "1", " ", "2", ".", "5">>,
     <<"b", " ", "=">>,
     <<"B", "0", "0", "0", "1", " ", "=", " ", "7">>}

\* More lines, for the specification of read() alone: a key that starts
\* with C and a trailing comment, a line that is none of the three kinds,
\* and variations of the lines above
MoreMdpLines ==
    {<<"C", "x", " ", "=", " ", "x", " ", "y", " ", ";", " ", "c">>,
     <<"a", "b", "c">>,
     <<" ", " ">>,
     <<";">>,
     <<" ", ";", " ", " ", "c", " ", "d">>,
     <<"a", "=", "x">>,
     <<"b", " ", "=", " ", ";", " ", "c">>,
     <<"a", " ", "=", " ", "-", "2">>,
     <<"z", " ", "=", " ", "0", "7", " ", ".", "5">>,
     <<"C", "0", "0", "0", "1", " ", "=", " ", "y">>,
     <<"=", " ", "1">>,
     <<"a", " ", "b", " ", "=", " ", "=", " ", "3">>}

MdpFiles == SeqsUpTo(MdpLines, MaxDocLines)

ReadFiles == SeqsUpTo(MdpLines \cup MoreMdpLines, MaxLines)

PathA == <<"run", "a.mdp">>
PathB == <<"out", "b.mdp">>
Paths == {PathA, PathB}
NoPath == <<>>

Objs == {1, 2}

\* **kwargs of the constructor
KwargsSet == {<<>>, <<[k |-> <<"z">>, v |-> IntV(7)]>>}

\* Keys and values of the in-memory assignments mdp[k] = v
SetKeys == {<<"a">>, <<"z">>}
\* Keys given to del, pop and move_to_end: a parameter, the first blank
\* and the first comment
DelKeys ==
    {<<"a">>, <<"B", "0", "0", "0", "1">>, <<"C", "0", "0", "0", "1">>}
SetValues == {StrV(<<>>), NoneV}

\* Lines of an index file
NdxLines ==
    {<<"[", " ", "a", " ", "]">>,
     <<"[", "b", "b", "]">>,
     <<"1", " ", "2">>,
     <<" ", "1", "0">>,
     <<"1", " ", "x">>,
     <<>>,
     <<"-", "3", " ", "+", "4">>}

\* The decimal numbers 1..n on one line
NumbersLine(n) == Join(<<" ">>, [j \in 1..n |-> NatStr(j)])

\* An index file of n groups g0, g1, ..., group i having i members
ManyGroups(n) ==
    [j \in 1..(2 * n) |->
        IF j % 2 = 1
        THEN <<"[", " ", "g">> \o NatStr(j \div 2) \o <<" ", "]">>
        ELSE NumbersLine(j \div 2 - 1)]

NdxFiles ==
    SeqsUpTo(NdxLines, MaxNdxLines) \cup {ManyGroups(n) : n \in 0..MaxGroups}

----------------------------------------------------------------------------
(* State *)

NoFile == [exists |-> FALSE, lines |-> <<>>]
File(lines) == [exists |-> TRUE, lines |-> lines]

NotBuilt == [st |-> "none", input_mdp |-> NoPath, data |-> <<>>, pristine |-> FALSE]

NoError == [type |-> "None", file |-> "", line |-> <<>>]
Error(type) == [type |-> type, file |-> "", line |-> <<>>]

NoCall ==
    [op |-> "none", o |-> 0, path |-> NoPath, skipempty |-> FALSE,
     before |-> <<>>]
Call(op, o, path, skipempty, before) ==
    [op |-> op, o |-> o, path |-> path, skipempty |-> skipempty,
     before |-> before]

NoWrite ==
    [has |-> FALSE, data |-> <<>>, skipempty |-> FALSE, pristine |-> FALSE,
     src |-> NoPath]

NotCalled == [st |-> "NotCalled", groups |-> <<>>, group_str |-> <<>>]
NoConv == [t |-> "NotCalled"]

Idle ==
    /\ fs = [p \in Paths |-> NoFile]
    /\ mdp = [o \in Objs |-> NotBuilt]
    /\ raised = NoError
    /\ nops = 0
    /\ call = NoCall
    /\ written = [p \in Paths |-> NoWrite]

mdpVars == <<fs, mdp, raised, nops, call, written>>
convVars == <<conv_in, conv_out>>
ndxVars == <<ndx_file, ndx_out>>

----------------------------------------------------------------------------
(* The MDP document: constructor, read, item assignment, the mutators
   inherited from OrderedDict, write *)

Init ==
    /\ \E f \in MdpFiles : fs = [p \in Paths |-> IF p = PathA THEN File(f) ELSE NoFile]
    /\ mdp = [o \in Objs |-> NotBuilt]
    /\ raised = NoError
    /\ nops = 0
    /\ call = NoCall
    /\ written = [p \in Paths |-> NoWrite]
    /\ conv_in = NoConv
    /\ conv_out = NoConv
    /\ ndx_file = <<>>
    /\ ndx_out = NotCalled

\* MDP(**kwargs): a document with no input file
NewEmpty(o, kwargs) ==
    /\ nops < MaxOps
    /\ mdp[o].st = "none"
    /\ \A q \in Objs : q < o => mdp[q].st # "none"
    /\ mdp' = [mdp EXCEPT ![o] =
                  [st |-> "built", input_mdp |-> NoPath, data |-> kwargs,
                   pristine |-> FALSE]]
    /\ raised' = NoError
    /\ call' = Call("new", o, NoPath, FALSE, kwargs)
    /\ nops' = nops + 1
    /\ UNCHANGED <<fs, written, convVars, ndxVars>>

\* MDP(path, **kwargs): the dict is filled from kwargs, then read() is called
New(o, path, kwargs) ==
    /\ nops < MaxOps
    /\ mdp[o].st = "none"
    /\ \A q \in Objs : q < o => mdp[q].st # "none"
    /\ call' = Call("new", o, path, FALSE, kwargs)
    /\ nops' = nops + 1
    /\ IF ~fs[path].exists
       THEN /\ raised' = Error("FileNotFoundError")
            /\ mdp' = [mdp EXCEPT ![o] =
                          [st |-> "failed", input_mdp |-> path,
                           data |-> kwargs, pristine |-> FALSE]]
       ELSE LET r == ReadResult(kwargs, path, fs[path].lines)
            IN  /\ raised' = r.raised
                /\ mdp' = [mdp EXCEPT ![o] =
                              [st |-> IF r.raised.type = "None"
                                      THEN "built" ELSE "failed",
                               input_mdp |-> path,
                               data |-> r.data,
                               pristine |-> r.raised.type = "None" /\ kwargs = <<>>]]
    /\ UNCHANGED <<fs, written, convVars, ndxVars>>

\* mdp.read() on a document already built
Read(o) ==
    /\ nops < MaxOps
    /\ mdp[o].st = "built"
    /\ call' = Call("read", o, mdp[o].input_mdp, FALSE, mdp[o].data)
    /\ nops' = nops + 1
    /\ IF mdp[o].input_mdp = NoPath
       THEN /\ raised' = Error("AttributeError")
            /\ mdp' = mdp
       ELSE IF ~fs[mdp[o].input_mdp].exists
       THEN /\ raised' = Error("FileNotFoundError")
            /\ mdp' = mdp
       ELSE LET r == ReadResult(mdp[o].data, mdp[o].input_mdp,
                                fs[mdp[o].input_mdp].lines)
            IN  /\ raised' = r.raised
                /\ mdp' = [mdp EXCEPT ![o].data = r.data,
                                      ![o].pristine = FALSE]
    /\ UNCHANGED <<fs, written, convVars, ndxVars>>

\* mdp[k] = v
SetItem(o, k, v) ==
    /\ nops < MaxOps
    /\ mdp[o].st = "built"
    /\ mdp' = [mdp EXCEPT ![o].data = DictSet(mdp[o].data, k, v),
                          ![o].pristine = FALSE]
    /\ raised' = NoError
    /\ call' = Call("setitem", o, NoPath, FALSE, mdp[o].data)
    /\ nops' = nops + 1
    /\ UNCHANGED <<fs, written, convVars, ndxVars>>

\* One call of a method MDP inherits from OrderedDict: the document becomes
\* d2, or the call raises KeyError and the document stays as it is.
Mutate(op, o, ok, d2) ==
    /\ nops < MaxOps
    /\ mdp[o].st = "built"
    /\ IF ok
       THEN /\ mdp' = [mdp EXCEPT ![o].data = d2, ![o].pristine = FALSE]
            /\ raised' = NoError
       ELSE /\ mdp' = mdp
            /\ raised' = Error("KeyError")
    /\ call' = Call(op, o, NoPath, FALSE, mdp[o].data)
    /\ nops' = nops + 1
    /\ UNCHANGED <<fs, written, convVars, ndxVars>>

\* del mdp[k]
DelItem(o, k) ==
    Mutate("delitem", o, HasKey(mdp[o].data, k), DictDel(mdp[o].data, k))

\* mdp.pop(k), and mdp.pop(k, default) when dflt
Pop(o, k, dflt) ==
    Mutate("pop", o, dflt \/ HasKey(mdp[o].data, k), DictDel(mdp[o].data, k))

\* mdp.popitem(last)
PopItem(o, last) ==
    Mutate("popitem", o, mdp[o].data # <<>>, DictPopItem(mdp[o].data, last))

\* mdp.clear()
Clear(o) == Mutate("clear", o, TRUE, <<>>)

\* mdp.move_to_end(k, last)
MoveToEnd(o, k, last) ==
    Mutate("move_to_end", o, HasKey(mdp[o].data, k),
           IF HasKey(mdp[o].data, k)
           THEN DictMoveToEnd(mdp[o].data, k, last) ELSE mdp[o].data)

\* mdp.setdefault(k, v)
SetDefault(o, k, v) ==
    Mutate("setdefault", o, TRUE,
           IF HasKey(mdp[o].data, k)
           THEN mdp[o].data ELSE DictSet(mdp[o].data, k, v))

\* mdp.update(**kwargs)
Update(o, kwargs) ==
    Mutate("update", o, TRUE, DictUpdate(mdp[o].data, kwargs))

\* mdp.write(output_mdp, skipempty); output_mdp = NoPath stands for None
Write(o, output_mdp, skipempty) ==
    /\ nops < MaxOps
    /\ mdp[o].st = "built"
    /\ nops' = nops + 1
    /\ LET out == IF output_mdp = NoPath THEN mdp[o].input_mdp ELSE output_mdp
       IN  /\ call' = Call("write", o, out, skipempty, mdp[o].data)
           /\ IF out = NoPath
              THEN /\ raised' = Error("AttributeError")
                   /\ UNCHANGED <<fs, written>>
              ELSE /\ raised' = NoError
                   /\ fs' = [fs EXCEPT ![out] =
                                File(WriteLines(mdp[o].data, skipempty))]
                   /\ written' = [written EXCEPT ![out] =
                                     [has |-> TRUE, data |-> mdp[o].data,
                                      skipempty |-> skipempty,
                                      pristine |-> mdp[o].pristine,
                                      src |-> mdp[o].input_mdp]]
    /\ UNCHANGED <<mdp, convVars, ndxVars>>

Next ==
    \/ \E o \in Objs, kw \in KwargsSet : NewEmpty(o, kw)
    \/ \E o \in Objs, p \in Paths, kw \in KwargsSet : New(o, p, kw)
    \/ \E o \in Objs : Read(o)
    \/ \E o \in Objs, k \in SetKeys, v \in SetValues : SetItem(o, k, v)
    \/ \E o \in Objs, p \in Paths \cup {NoPath}, se \in BOOLEAN : Write(o, p, se)
    \/ \E o \in Objs, k \in DelKeys : DelItem(o, k)
    \/ \E o \in Objs, k \in DelKeys, dflt \in BOOLEAN : Pop(o, k, dflt)
    \/ \E o \in Objs, last \in BOOLEAN : PopItem(o, last)
    \/ \E o \in Objs : Clear(o)
    \/ \E o \in Objs, k \in DelKeys, last \in BOOLEAN : MoveToEnd(o, k, last)
    \/ \E o \in Objs, k \in SetKeys, v \in SetValues : SetDefault(o, k, v)
    \/ \E o \in Objs, kw \in KwargsSet : Update(o, kw)

Spec == Init /\ [][Next]_vars

----------------------------------------------------------------------------
(* _convert_to_numeric on its own *)

InitConv ==
    /\ Idle
    /\ conv_in \in ConvInputs
    /\ conv_out = NoConv
    /\ ndx_file = <<>>
    /\ ndx_out = NotCalled

Convert ==
    /\ conv_out = NoConv
    /\ conv_out' = ConvertToNumeric(conv_in)
    /\ UNCHANGED <<conv_in, mdpVars, ndxVars>>

NextConv == Convert

SpecConv == InitConv /\ [][NextConv]_vars

----------------------------------------------------------------------------
(* parse_ndx on its own *)

InitNdx ==
    /\ Idle
    /\ conv_in = NoConv
    /\ conv_out = NoConv
    /\ ndx_file \in NdxFiles
    /\ ndx_out = NotCalled

ParseNdx ==
    /\ ndx_out.st = "NotCalled"
    /\ ndx_out' = ParseNdxResult(ndx_file)
    /\ UNCHANGED <<ndx_file, mdpVars, convVars>>

NextNdx == ParseNdx

SpecNdx == InitNdx /\ [][NextNdx]_vars

----------------------------------------------------------------------------
(* The constructor (and with it read) on its own, over more files *)

InitRead ==
    /\ \E f \in ReadFiles : fs = [p \in Paths |-> IF p = PathA THEN File(f) ELSE NoFile]
    /\ mdp = [o \in Objs |-> NotBuilt]
    /\ raised = NoError
    /\ nops = 0
    /\ call = NoCall
    /\ written = [p \in Paths |-> NoWrite]
    /\ conv_in = NoConv
    /\ conv_out = NoConv
    /\ ndx_file = <<>>
    /\ ndx_out = NotCalled

NextRead == \E kw \in KwargsSet : nops = 0 /\ New(1, PathA, kw)

SpecRead == InitRead /\ [][NextRead]_vars

----------------------------------------------------------------------------
(* Claims about _convert_to_numeric, under SpecConv *)

ConvTokens == Split(conv_in.s)

ConvCalled == conv_out # NoConv /\ conv_in.t = "str" /\ ConvTokens # <<>>

\* C2: for a value text of at least one token, if every token converts to
\* an int the result is that int (one token) or the ordered list of the ints
\* (two or more); otherwise, if every token converts to a float, it is the
\* float or the ordered list of floats, every token converted to float.
C2_NumericInference ==
    ConvCalled =>
        LET toks == ConvTokens
            n == Len(toks)
        IN  /\ (\A i \in 1..n : IntOk(toks[i])) =>
                  IF n = 1
                  THEN conv_out = IntV(IntOf(toks[1]))
                  ELSE /\ conv_out.t = "list"
                       /\ Len(conv_out.e) = n
                       /\ \A i \in 1..n : conv_out.e[i] = IntV(IntOf(toks[i]))
            /\ ((\E i \in 1..n : ~IntOk(toks[i]))
                /\ (\A i \in 1..n : FloatOk(toks[i]))) =>
                  IF n = 1
                  THEN conv_out = FloatOf(toks[1])
                  ELSE /\ conv_out.t = "list"
                       /\ Len(conv_out.e) = n
                       /\ \A i \in 1..n : conv_out.e[i] = FloatOf(toks[i])

\* A value mixing an int token and a float token came out as a list of floats.
C2_Witness ==
    /\ ConvCalled
    /\ Len(ConvTokens) >= 2
    /\ \E i \in 1..Len(ConvTokens) : IntOk(ConvTokens[i])
    /\ \E i \in 1..Len(ConvTokens) : ~IntOk(ConvTokens[i])
    /\ \A i \in 1..Len(ConvTokens) : FloatOk(ConvTokens[i])
    /\ conv_out.t = "list"
    /\ \A i \in 1..Len(conv_out.e) : conv_out.e[i].t = "float"

----------------------------------------------------------------------------
(* Claims about parse_ndx, under SpecNdx *)

NdxL(i) == Strip(ndx_file[i])

\* The header lines of the index file, and the name each declares
HeaderIdx == {i \in 1..Len(ndx_file) : IsHeader(NdxL(i))}
NameAt(i) == HeaderName(NdxL(i))

\* The lines that follow at least one header and are not headers themselves
BodyIdx ==
    {i \in 1..Len(ndx_file) :
        i \notin HeaderIdx /\ \E h \in HeaderIdx : h < i}

\* The headers that declare a name for the first time, and the r-th of them
FirstIdx == {i \in HeaderIdx : \A j \in HeaderIdx : j < i => NameAt(j) # NameAt(i)}
NthFirst(r) == CHOOSE i \in FirstIdx : Cardinality({j \in FirstIdx : j <= i}) = r

\* The last header of the name, and the header (or end of file) after it
LastHeader(name) ==
    CHOOSE i \in HeaderIdx :
        NameAt(i) = name /\ \A j \in HeaderIdx : NameAt(j) = name => j <= i
BlockEnd(h) ==
    CHOOSE e \in (HeaderIdx \cup {Len(ndx_file) + 1}) :
        e > h /\ \A j \in HeaderIdx : j > h => e <= j

\* The integers on lines lo..hi, in order
RECURSIVE IntsOnLines(_, _)
IntsOnLines(lo, hi) ==
    IF lo > hi THEN <<>>
    ELSE IntsOf(Split(NdxL(lo))) \o IntsOnLines(lo + 1, hi)

\* C6: for an index file whose body tokens are all integers, parse_ndx
\* returns a mapping with one key per distinct header name, in the order of
\* the first occurrence of each name; the value of a name is the
\* concatenation of the integers on the lines between the LAST header of
\* that name and the next header or the end of the file.
C6_GroupMapping ==
    (/\ ndx_out.st # "NotCalled"
     /\ \A i \in BodyIdx : \A k \in 1..Len(Split(NdxL(i))) : IntOk(Split(NdxL(i))[k]))
    =>
    /\ ndx_out.st = "returned"
    /\ Len(ndx_out.groups) = Cardinality(FirstIdx)
    /\ \A r \in 1..Len(ndx_out.groups) :
          LET name == NameAt(NthFirst(r))
              h == LastHeader(name)
          IN  /\ ndx_out.groups[r].k = name
              /\ ndx_out.groups[r].v = IntsOnLines(h + 1, BlockEnd(h) - 1)

\* A header was repeated after its group had received members.
C6_Witness ==
    /\ ndx_out.st = "returned"
    /\ \E i, j \in HeaderIdx :
          /\ i < j
          /\ NameAt(i) = NameAt(j)
          /\ IntsOnLines(i + 1, BlockEnd(i) - 1) # <<>>

\* Number of decimal digits of a number below 1000
Digits(k) == IF k < 10 THEN 1 ELSE IF k < 100 THEN 2 ELSE 3

\* The largest of f[1..n], 0 when n = 0
Largest(f, n) ==
    IF n = 0 THEN 0
    ELSE CHOOSE m \in {f[j] : j \in 1..n} : \A j \in 1..n : f[j] <= m

\* C7: the summary of n groups is n lines in mapping order; line i is two
\* blanks, "(i)", a blank, the padding that brings the index to the digit
\* width of n - 1, the name and ":" left-justified to (longest name + 1), a
\* blank, the member count right-aligned to the digit width of the largest
\* count, and " atoms".  With no group the mapping and the summary are empty
\* and the call does not fail.
C7_SummaryFormat ==
    /\ (ndx_out.st # "NotCalled" /\ HeaderIdx = {}) =>
          ndx_out = [st |-> "returned", groups |-> <<>>, group_str |-> <<>>]
    /\ ndx_out.st = "returned" =>
          LET g == ndx_out.groups
              n == Len(g)
              nameW == Largest([j \in 1..n |-> Len(g[j].k)], n)
              countW == Digits(Largest([j \in 1..n |-> Len(g[j].v)], n))
          IN  /\ Len(ndx_out.group_str) = n
              /\ \A i \in 0..(n - 1) :
                    ndx_out.group_str[i + 1] =
                        <<" ", " ", "(">> \o IntStr(i) \o <<")", " ">>
                        \o Rep(" ", Digits(n - 1) - Digits(i))
                        \o g[i + 1].k \o <<":">>
                        \o Rep(" ", nameW - Len(g[i + 1].k))
                        \o <<" ">>
                        \o Rep(" ", countW - Digits(Len(g[i + 1].v)))
                        \o IntStr(Len(g[i + 1].v))
                        \o <<" ", "a", "t", "o", "m", "s">>

\* A summary whose index column and count column are two digits wide and
\* whose names differ in length.
C7_Witness ==
    /\ ndx_out.st = "returned"
    /\ Len(ndx_out.groups) >= 11
    /\ \E j \in 1..Len(ndx_out.groups) : Len(ndx_out.groups[j].v) >= 10
    /\ \E j, k \in 1..Len(ndx_out.groups) :
          Len(ndx_out.groups[j].k) # Len(ndx_out.groups[k].k)

\* C8: whenever a line that follows a group header (and is not a header
\* itself) holds a token that is not a base-10 integer, parse_ndx ends in
\* an error and returns neither a mapping nor a summary.
C8_MalformedToken ==
    (/\ ndx_out.st # "NotCalled"
     /\ \E i \in BodyIdx : \E k \in 1..Len(Split(NdxL(i))) : ~IntOk(Split(NdxL(i))[k]))
    => ndx_out = [st |-> "raised", groups |-> <<>>, group_str |-> <<>>]

\* The call failed on a malformed token that came after a complete group
\* with members.
C8_Witness ==
    /\ ndx_out.st = "raised"
    /\ \E h \in HeaderIdx, i, j \in BodyIdx :
          /\ h < i /\ i < j
          /\ Split(NdxL(i)) # <<>>
          /\ \A k \in 1..Len(Split(NdxL(i))) : IntOk(Split(NdxL(i))[k])
          /\ \E k \in 1..Len(Split(NdxL(j))) : ~IntOk(Split(NdxL(j))[k])

----------------------------------------------------------------------------
(* Claims about MDP.read, under SpecRead *)

\* The constructor was called on an existing file
ReadCalled == call.op = "new" /\ call.path \in Paths /\ fs[call.path].exists

\* ... and returned a document, with no kwargs given
ReadDone == ReadCalled /\ raised = NoError /\ call.before = <<>>

SrcLen == Len(fs[call.path].lines)
SL(i) == Strip(fs[call.path].lines[i])
Doc == mdp[call.o].data

\* The three classes of line
IsBlank(i) == SL(i) = <<>>
IsComment(i) == ~IsBlank(i) /\ SL(i)[1] = ";"
IsKeyValue(i) ==
    /\ ~IsBlank(i)
    /\ ~IsComment(i)
    /\ \E p \in 1..Len(SL(i)) :
          /\ SL(i)[p] = "="
          /\ \A q \in 1..(p - 1) : SL(i)[q] # "="
          /\ Strip(SubSeq(SL(i), 1, p - 1)) # <<>>
Unrecognized(i) == ~IsBlank(i) /\ ~IsComment(i) /\ ~IsKeyValue(i)

\* How many of the lines 1..i are blank, are comments
BlankNo(i) == Cardinality({j \in 1..i : IsBlank(j)})
CommentNo(i) == Cardinality({j \in 1..i : IsComment(j)})

\* The key line i is stored under, and whether no later line takes that key
LineKey(i) ==
    IF IsBlank(i) THEN BLANK(BlankNo(i))
    ELSE IF IsComment(i) THEN COMMENT(CommentNo(i))
    ELSE ParameterKey(SL(i))
Stored(i) == \A j \in (i + 1)..SrcLen : LineKey(j) # LineKey(i)

ValueTokens(i) == Split(ParameterValue(SL(i)))

\* C3: a parameter whose value text holds a token that is neither an int
\* nor a float is stored as the value string itself, one string also when
\* the text has two or more tokens.
C3_NonNumericIsString ==
    ReadDone =>
        \A i \in 1..SrcLen :
            (/\ IsKeyValue(i)
             /\ Stored(i)
             /\ \E k \in 1..Len(ValueTokens(i)) :
                   ~IntOk(ValueTokens(i)[k]) /\ ~FloatOk(ValueTokens(i)[k]))
            => Lookup(Doc, LineKey(i)) = StrV(Strip(ParameterValue(SL(i))))

\* C4: a parameter line with nothing (or only blanks or a trailing comment)
\* after the equals sign is stored as the empty string.
C4_EmptyIsString ==
    ReadDone =>
        \A i \in 1..SrcLen :
            (IsKeyValue(i) /\ Stored(i) /\ ValueTokens(i) = <<>>)
            => Lookup(Doc, LineKey(i)) = StrV(<<>>)

\* The first unrecognized line
FirstBad == CHOOSE i \in 1..SrcLen :
    Unrecognized(i) /\ \A j \in 1..(i - 1) : ~Unrecognized(j)

\* C9: when read meets a line that is not blank, not a comment and not
\* key = value with a non-empty key, it raises ParseError carrying the base
\* name of the file and the text of that line, and the document holds what
\* it held before read was called.
C9_UnrecognizedLine ==
    (ReadCalled /\ \E i \in 1..SrcLen : Unrecognized(i)) =>
        /\ raised = [type |-> "ParseError",
                     file |-> call.path[Len(call.path)],
                     line |-> SL(FirstBad)]
        /\ mdp[call.o].st = "failed"
        /\ Doc = call.before

\* A ParseError on a line that came after a parameter line, in a document
\* that already held an entry.
C9_Witness ==
    /\ ReadCalled
    /\ raised.type = "ParseError"
    /\ call.before # <<>>
    /\ FirstBad > 1
    /\ IsKeyValue(1)
    /\ ~HasKey(call.before, LineKey(1))

\* C10: the k-th blank line is stored under B and k padded to four digits,
\* with value ""; the k-th comment line under C and k padded to four
\* digits, with the text after the marker as value.
C10_SyntheticKeys ==
    ReadDone =>
        \A i \in 1..SrcLen :
            /\ IsBlank(i) =>
                  /\ HasKey(Doc, <<"B">> \o Pad4(BlankNo(i)))
                  /\ Lookup(Doc, <<"B">> \o Pad4(BlankNo(i))) = StrV(<<>>)
            /\ IsComment(i) =>
                  /\ HasKey(Doc, <<"C">> \o Pad4(CommentNo(i)))
                  /\ Lookup(Doc, <<"C">> \o Pad4(CommentNo(i)))
                        = StrV(LStrip(Tail(SL(i))))

----------------------------------------------------------------------------
(* Claims about the round trip and about write, under Spec *)

\* C1: a document parsed from a file, written unchanged with
\* skipempty=False to a new path and parsed again from that path, has the
\* same sequence of (key, value) entries.
C1_RoundTrip ==
    (/\ ReadDone
     /\ written[call.path].has
     /\ written[call.path].pristine
     /\ written[call.path].src # call.path
     /\ ~written[call.path].skipempty)
    => Doc = written[call.path].data

\* A parameter entry that counts as empty-valued: set to "" or None in
\* memory, or parsed from a line with empty value text
EmptyValued(e) == e.v = StrV(<<>>) \/ e.v = NoneV \/ e.v = ListV(<<>>)
IsParamKey(k) == k[1] # "B" /\ k[1] # "C"

\* The entries of d that are not empty-valued parameters
RECURSIVE NonEmpty(_)
NonEmpty(d) ==
    IF d = <<>> THEN <<>>
    ELSE IF IsParamKey(d[1].k) /\ EmptyValued(d[1]) THEN NonEmpty(Tail(d))
    ELSE <<d[1]>> \o NonEmpty(Tail(d))

\* C5: write with skipempty=True emits no line for an empty-valued
\* parameter and every other entry unchanged; with skipempty=False it emits
\* the parameter as the line "key = ".
C5_SkipEmpty ==
    (call.op = "write" /\ raised = NoError) =>
        LET d == call.before
            out == fs[call.path].lines
        IN  IF call.skipempty
            THEN out = WriteLines(NonEmpty(d), FALSE)
            ELSE /\ Len(out) = Len(d)
                 /\ \A i \in 1..Len(d) :
                       (IsParamKey(d[i].k) /\ EmptyValued(d[i]))
                       => out[i] = d[i].k \o <<" ", "=", " ">>

----------------------------------------------------------------------------
(* Claims about item assignment, under Spec *)

\* What mdp[k] = v must do to the entries d, giving d2
SetContract(d, d2, k, v) ==
    IF \E i \in 1..Len(d) : d[i].k = k
    THEN /\ Len(d2) = Len(d)
         /\ \A i \in 1..Len(d) :
               /\ d2[i].k = d[i].k
               /\ d[i].k = k => d2[i].v = v
               /\ d[i].k # k => d2[i].v = d[i].v
    ELSE /\ Len(d2) = Len(d) + 1
         /\ \A i \in 1..Len(d) : d2[i] = d[i]
         /\ d2[Len(d2)] = [k |-> k, v |-> v]

\* Every entry of d is still in d2, at its position and under its key
KeepsEntries(d, d2) ==
    /\ Len(d2) >= Len(d)
    /\ \A i \in 1..Len(d) : d2[i].k = d[i].k

\* C11: in every step that assigns mdp[k] = v, a key not yet present is
\* appended as one new entry at the end with every existing entry unchanged;
\* a key already present gets the value in place, every other entry and
\* every position unchanged; the other documents and the files are
\* untouched. No step that sets keys (assignment, setdefault, update)
\* removes or moves an entry, so none removes or moves a comment or blank.
C11_MutationContract ==
    [][/\ \A o \in Objs, k \in SetKeys, v \in SetValues :
            /\ SetItem(o, k, v) =>
                  /\ SetContract(mdp[o].data, mdp'[o].data, k, v)
                  /\ \A q \in Objs \ {o} : mdp'[q] = mdp[q]
                  /\ fs' = fs
            /\ SetDefault(o, k, v) =>
                  KeepsEntries(mdp[o].data, mdp'[o].data)
       /\ \A o \in Objs, kw \in KwargsSet :
            Update(o, kw) => KeepsEntries(mdp[o].data, mdp'[o].data)]_vars

\* An assignment changed the value of an entry that is not the last one,
\* in a document read from a file with a blank or a comment line.
C11_Witness ==
    /\ call.op = "setitem"
    /\ Len(Doc) = Len(call.before)
    /\ \E i \in 1..(Len(Doc) - 1) : Doc[i].v # call.before[i].v
    /\ \E j \in 1..Len(Doc) : Doc[j].k[1] \in {"B", "C"}

----------------------------------------------------------------------------
(* Claims about the lines write emits, under Spec *)

\* A key of the form read gives to blank (c = "B") or comment (c = "C")
\* lines: the letter followed by a counter of four or more digits
IsSyntheticKey(k, c) ==
    /\ Len(k) >= 5
    /\ k[1] = c
    /\ \A i \in 2..Len(k) : k[i] \in Digit

IsBlankEntry(e) == IsSyntheticKey(e.k, "B") /\ e.v = StrV(<<>>)
IsCommentEntry(e) == IsSyntheticKey(e.k, "C") /\ e.v.t = "str"

\* The line the entry e stands for: empty for a blank, "; text" for a
\* comment, "key = value" for a parameter, a list value being its elements
\* joined by single blanks
EntryLine(e) ==
    IF IsBlankEntry(e) THEN <<>>
    ELSE IF IsCommentEntry(e) THEN <<";", " ">> \o e.v.s
    ELSE e.k \o <<" ", "=", " ">>
         \o (IF e.v.t = "list"
             THEN Join(<<" ">>, [i \in 1..Len(e.v.e) |-> PyStr(e.v.e[i])])
             ELSE PyStr(e.v))

\* C12: write with skipempty=False emits exactly one line per entry, in
\* stored order: an empty line for a blank entry, "; " and the text for a
\* comment entry, and "key = value" for every parameter entry, also when
\* the key begins with the letter B or C.
C12_PerEntryEmission ==
    (call.op = "write" /\ raised = NoError /\ ~call.skipempty) =>
        LET d == call.before
            out == fs[call.path].lines
        IN  /\ Len(out) = Len(d)
            /\ \A i \in 1..Len(d) : out[i] = EntryLine(d[i])

====
